---- MODULE Spec2Model ----
(***************************************************************************)
(* A model of flappybird.py: the Bird and PipePair entities and the tick   *)
(* loop of main().  One Tick step is one pass through the body of the      *)
(* `while not done` loop; Report is the code after the loop.               *)
(*                                                                         *)
(* Lengths are pixels.  bird.y is a float in the program; here it is a     *)
(* fixed-point integer in units of 10^-6 pixel (Micro units per pixel).    *)
(* Pipe x positions are ints in the program and plain integers here.       *)
(*                                                                         *)
(* Two places of the source do not run as written (line 289 lacks a comma  *)
(* and so calls the int 2; line 81 reads the bare name steps_to_jump,      *)
(* which is bound nowhere).  The tick loop is modelled with the Bird       *)
(* built from the arguments written at line 289 and with update() testing  *)
(* the bird's own attribute, as lines 82-86 and the docstring at lines     *)
(* 78-79 do.                                                               *)
(***************************************************************************)
EXTENDS Integers, Sequences, FiniteSets, TLC

VARIABLES bird, pipes, frame_clock, score, done, paused, output,
          spawned, spawns_at_clock, retired, retired_counted, last,
          pc, error, arc

vars == <<bird, pipes, frame_clock, score, done, paused, output,
          spawned, spawns_at_clock, retired, retired_counted, last,
          pc, error, arc>>

(* ------------------------------ constants ------------------------------ *)

FPS == 60
FRAME_ANIMATION_WIDTH == 3
WIN_WIDTH == 284 * 2
WIN_HEIGHT == 512

Bird_WIDTH == 32
Bird_HEIGHT == 32
FRAME_DROP_HEIGHT == 3
FRAME_JUMP_HEIGHT == 5
JUMP_STEPS == 20

PipePair_WIDTH == 80
PIECE_HEIGHT == 32
ADD_INTERVAL == 3000

(* Units of bird.y per pixel. *)
Micro == 10^6

(* -------------------------------- bounds ------------------------------- *)

(* The bird alone is followed for MaxBirdTicks ticks, with at most         *)
(* MaxJumps jump commands in all and MaxTickJumps in one tick.             *)
MaxBirdTicks == 50
MaxJumps == 2
MaxTickJumps == 2
(* Birds are built at y = 0, 120, ..., 120 * MaxBirdRow pixels. *)
MaxBirdRow == 4
(* The loop is explored while frame_clock is below MaxClock. *)
MaxClock == 362
(* At most this many user events are queued in one tick. *)
MaxEvents == 1
(* The player issues jump commands only in ticks whose frame_clock is a    *)
(* multiple of JumpEvery.                                                  *)
JumpEvery == 18

(* ------------------------------- helpers ------------------------------- *)

(* int(v) for a float v held in Micro units: truncation toward zero. *)
trunc(v) == IF v >= 0 THEN v \div Micro ELSE -((-v) \div Micro)

(* pygame.Rect; float coordinates are truncated to ints. *)
Rect(x, y, w, h) == [x |-> x, y |-> y, w |-> w, h |-> h]

(* pygame.Rect.colliderect: overlap of two rectangles, touching edges do   *)
(* not collide.                                                            *)
colliderect(a, b) ==
    /\ a.x < b.x + b.w
    /\ a.y < b.y + b.h
    /\ a.x + a.w > b.x
    /\ a.y + a.h > b.y

(* math.cos(n / 20.0 * math.pi) in Micro units, n in 0..20, rounded to the *)
(* nearest 10^-6; the second half follows from cos(pi - t) = -cos(t).      *)
CosTable == <<987688, 951057, 891007, 809017, 707107,
              587785, 453990, 309017, 156434, 0>>

cos_frac_pi(n) ==
    IF n = 0 THEN Micro
    ELSE IF n <= 10 THEN CosTable[n]
    ELSE IF n < JUMP_STEPS THEN -CosTable[JUMP_STEPS - n]
    ELSE -Micro

(* fps * milliseconds / 1000.0; exact for the values used. *)
msec_to_frames(milliseconds) == (FPS * milliseconds) \div 1000

(* -------------------------------- Bird ---------------------------------- *)

(* Bird.__init__: the attributes x, y, steps_to_jump. *)
Bird(x, y, steps_to_jump) == [x |-> x, y |-> y, steps_to_jump |-> steps_to_jump]

(* Bird.rect: Rect(self.x, self.y, WIDTH, HEIGHT). *)
rect(b) == Rect(b.x, trunc(b.y), Bird_WIDTH, Bird_HEIGHT)

(* Bird.update, with the test of line 81 read on the bird's attribute. *)
update(b) ==
    IF b.steps_to_jump > 0
    THEN [b EXCEPT
            !.y = @ - FRAME_JUMP_HEIGHT *
                        (Micro - cos_frac_pi(JUMP_STEPS - b.steps_to_jump)),
            !.steps_to_jump = @ - 1]
    ELSE [b EXCEPT !.y = @ + FRAME_DROP_HEIGHT * Micro]

(* ------------------------------ PipePair ------------------------------- *)

(* A variant of total_pipe_body_pieces that reserves two piece heights. *)
total_pipe_body_pieces_two_ends ==
    (WIN_HEIGHT - 3 * Bird_HEIGHT - 2 * PIECE_HEIGHT) \div PIECE_HEIGHT

(* Lines 159-164. *)
total_pipe_body_pieces ==
    (WIN_HEIGHT - 3 * Bird_HEIGHT - 3 * PIECE_HEIGHT) \div PIECE_HEIGHT

(* A variant of PipePair without the compensation of line 184. *)
PipePair_uncompensated(draw, id) ==
    [x |-> WIN_WIDTH, score_counted |-> FALSE,
     bottom_pieces |-> draw + 1,
     top_pieces |-> total_pipe_body_pieces - draw,
     id |-> id]

(* PipePair.__init__; draw is the value randint(1, total) returns, id the  *)
(* number of this PipePair in order of construction (not in the program).  *)
PipePair(draw, id) ==
    [x |-> WIN_WIDTH, score_counted |-> FALSE,
     bottom_pieces |-> draw + 1,
     top_pieces |-> (total_pipe_body_pieces - draw) + 1,
     id |-> id]

top_height_px(p) == p.top_pieces * PIECE_HEIGHT

bottom_height_px(p) == p.bottom_pieces * PIECE_HEIGHT

top_rect(p) == Rect(p.x, 0, PipePair_WIDTH, top_height_px(p))

bottom_rect(p) ==
    Rect(p.x, WIN_HEIGHT - bottom_height_px(p), PipePair_WIDTH, bottom_height_px(p))

(* PipePair.collides_with: rect.collidelist((top_rect, bottom_rect)) > -1. *)
collides_with(p, r) == colliderect(r, top_rect(p)) \/ colliderect(r, bottom_rect(p))

(* ------------------------------- main --------------------------------- *)

(* The kinds of event the loop tells apart: QUIT or KEYUP Escape; KEYUP    *)
(* Pause or p; MOUSEBUTTONUP or KEYUP Up, Return, Space; ADD_EVENT.        *)
UserEvents == {"QUIT", "PAUSE", "JUMP"}
ADD_EVENT == "ADD"

(* A variant of post_add_event that does not test paused. *)
post_add_event_ignoring_pause(p, clock) == clock % msec_to_frames(ADD_INTERVAL) = 0

(* Line 302: whether this tick posts ADD_EVENT. *)
post_add_event(p, clock) ==
    ~(p \/ clock % msec_to_frames(ADD_INTERVAL) # 0)

(* A variant of handle_event in which a jump command also clears paused.   *)
handle_event_jump_resumes(e, s, draw) ==
    IF e = "PAUSE" THEN [s EXCEPT !.paused = ~@, !.toggled = ~@]
    ELSE IF e = "JUMP"
         THEN [s EXCEPT !.bird.steps_to_jump = JUMP_STEPS, !.paused = FALSE]
    ELSE [s EXCEPT !.pipes = Append(@, PipePair(draw, s.spawned + 1)),
                   !.spawned = @ + 1,
                   !.added = @ + 1,
                   !.added_paused = @ \/ s.paused]

(* A variant of handle_event in which a jump command is ignored mid-arc. *)
handle_event_jump_not_mid_arc(e, s, draw) ==
    IF e = "PAUSE" THEN [s EXCEPT !.paused = ~@, !.toggled = ~@]
    ELSE IF e = "JUMP"
    THEN [s EXCEPT !.bird.steps_to_jump = IF @ = 0 THEN JUMP_STEPS ELSE @]
    ELSE [s EXCEPT !.pipes = Append(@, PipePair(draw, s.spawned + 1)),
                   !.spawned = @ + 1,
                   !.added = @ + 1,
                   !.added_paused = @ \/ s.paused]

(* Lines 309-316: one event other than a quit event handled, from the loop *)
(* state s.  draw is the value randint returns if a PipePair is built.     *)
(* s.toggled, s.added and s.added_paused record that the paused flag was   *)
(* flipped, the PipePairs appended, and that one was appended while the    *)
(* paused flag was set.                                                    *)
handle_event(e, s, draw) ==
    IF e = "PAUSE" THEN [s EXCEPT !.paused = ~@, !.toggled = ~@]
    ELSE IF e = "JUMP" THEN [s EXCEPT !.bird.steps_to_jump = JUMP_STEPS]
    ELSE [s EXCEPT !.pipes = Append(@, PipePair(draw, s.spawned + 1)),
                   !.spawned = @ + 1,
                   !.added = @ + 1,
                   !.added_paused = @ \/ s.paused]

(* Lines 305-316: the events of the queue q handled in order; a quit event *)
(* sets done and ends the handling (break).                                *)
RECURSIVE handle_events(_, _, _)
handle_events(q, s, draw) ==
    IF q = << >> THEN s
    ELSE IF Head(q) = "QUIT" THEN [s EXCEPT !.done = TRUE, !.quit = TRUE]
    ELSE handle_events(Tail(q), handle_event(Head(q), s, draw), draw)

(* A variant of skip_frame that never skips. *)
skip_frame_never(s) == FALSE

(* Line 318: the rest of the tick is skipped. *)
skip_frame(s) == s.paused

(* Line 322: any(p.collides_with(bird.rect) for p in pipes). *)
pipe_collision(ps, b) == \E i \in 1..Len(ps) : collides_with(ps[i], rect(b))

(* A variant of out_of_window that forgets the bird's height. *)
out_of_window_full_height(b) == 0 >= b.y \/ b.y >= WIN_HEIGHT * Micro

(* Line 323: the bird is at or beyond the top or the bottom of the window. *)
out_of_window(b) == 0 >= b.y \/ b.y >= (WIN_HEIGHT - Bird_HEIGHT) * Micro

(* Variants of popleft_offscreen: dropping only pipes beyond -WIDTH;       *)
(* dropping none; dropping the pipes whose left edge is off the screen.    *)
RECURSIVE popleft_offscreen_beyond(_)
popleft_offscreen_beyond(ps) ==
    IF Len(ps) > 0 /\ ps[1].x < -PipePair_WIDTH
    THEN popleft_offscreen_beyond(Tail(ps))
    ELSE ps

popleft_offscreen_never(ps) == ps

RECURSIVE popleft_offscreen_left_edge(_)
popleft_offscreen_left_edge(ps) ==
    IF Len(ps) > 0 /\ ps[1].x <= 0
    THEN popleft_offscreen_left_edge(Tail(ps))
    ELSE ps

(* Lines 329-330: pipes dropped from the front while off the left edge. *)
RECURSIVE popleft_offscreen(_)
popleft_offscreen(ps) ==
    IF Len(ps) > 0 /\ ps[1].x <= -PipePair_WIDTH
    THEN popleft_offscreen(Tail(ps))
    ELSE ps

(* A variant of move_pipes that moves the first pipe only. *)
move_pipes_first_only(ps) ==
    [i \in 1..Len(ps) |->
        IF i = 1 THEN [ps[i] EXCEPT !.x = @ - FRAME_ANIMATION_WIDTH] ELSE ps[i]]

(* Lines 332-333: every pipe moves left. *)
move_pipes(ps) ==
    [i \in 1..Len(ps) |-> [ps[i] EXCEPT !.x = @ - FRAME_ANIMATION_WIDTH]]

(* Variants of scores: without the test of score_counted; testing the left *)
(* edge of the pipe.                                                       *)
scores_recount(p, b) == p.x + PipePair_WIDTH < b.x

scores_at_left_edge(p, b) == p.x < b.x /\ ~p.score_counted

(* Lines 341-344: whether pipe p is counted in this tick. *)
scores(p, b) == p.x + PipePair_WIDTH < b.x /\ ~p.score_counted

count_scores(ps, b) == Cardinality({i \in 1..Len(ps) : scores(ps[i], b)})

mark_scores(ps, b) ==
    [i \in 1..Len(ps) |->
        IF scores(ps[i], b) THEN [ps[i] EXCEPT !.score_counted = TRUE] ELSE ps[i]]

(* What the latest tick did (not in the program): quit, a quit event was   *)
(* handled (line 307); toggled, the paused flag was flipped an odd number  *)
(* of times (line 310); added, the PipePairs appended (line 316),          *)
(* added_paused, one of them                                               *)
(* while paused was set; checked, lines 322-323 were evaluated, with       *)
(* pipe_collision and boundary their two results and hit the ids of the    *)
(* pipes the bird collided with.                                           *)
NoTick ==
    [quit |-> FALSE, toggled |-> FALSE, added |-> 0, added_paused |-> FALSE,
     checked |-> FALSE, pipe_collision |-> FALSE, boundary |-> FALSE, hit |-> {}]

(* The bird's latest jump (not in the program): commanded, a jump command  *)
(* was handled; from, bird.y when the latest one was; prev, steps_to_jump  *)
(* before it; n, the jump commands of that tick; updates, the calls of     *)
(* update() since; jumps and ticks, the jump commands and ticks so far.    *)
NoArc ==
    [commanded |-> FALSE, from |-> 0, prev |-> 0, n |-> 0, updates |-> 0,
     jumps |-> 0, ticks |-> 0]

(* Lines 287-296, with the arguments of line 289 as they are written. *)
Init ==
    /\ bird = Bird(50, trunc((WIN_HEIGHT * Micro) \div 2 - (Bird_HEIGHT * Micro) \div 2)
                         * Micro, 2)
    /\ pipes = << >>
    /\ frame_clock = 0
    /\ score = 0
    /\ done = FALSE
    /\ paused = FALSE
    /\ output = << >>
    /\ spawned = 0
    /\ spawns_at_clock = 0
    /\ retired = 0
    /\ retired_counted = 0
    /\ last = NoTick
    /\ pc = "main"
    /\ error = "none"
    /\ arc = NoArc

(* The user events pygame.event.get() may return in one tick. *)
UserQueues(kinds) == UNION {[1..n -> kinds] : n \in 0..MaxEvents}

Insert(q, pos, e) == SubSeq(q, 1, pos) \o <<e>> \o SubSeq(q, pos + 1, Len(q))

(* Lines 298-351: one pass through the loop body.  The posted ADD_EVENT    *)
(* may stand anywhere among the user events of the tick.                   *)
Tick ==
    /\ ~done
    /\ frame_clock < MaxClock
    /\ \E user \in UserQueues(IF frame_clock % JumpEvery = 0
                              THEN UserEvents ELSE UserEvents \ {"JUMP"}) :
       LET posted == post_add_event(paused, frame_clock) IN
       \E pos \in (IF posted THEN 0..Len(user) ELSE {0}),
          draw \in (IF posted THEN 1..total_pipe_body_pieces ELSE {1}) :
       LET q  == IF posted THEN Insert(user, pos, ADD_EVENT) ELSE user
           s0 == [done |-> done, paused |-> paused, bird |-> bird, pipes |-> pipes,
                  spawned |-> spawned, quit |-> FALSE, toggled |-> FALSE,
                  added |-> 0, added_paused |-> FALSE]
           s1 == handle_events(q, s0, draw)
       IN
       /\ paused' = s1.paused
       /\ spawned' = s1.spawned
       /\ IF skip_frame(s1)
          THEN /\ done' = s1.done
               /\ bird' = s1.bird
               /\ pipes' = s1.pipes
               /\ spawns_at_clock' = spawns_at_clock + s1.added
               /\ last' = [NoTick EXCEPT !.quit = s1.quit, !.toggled = s1.toggled,
                                         !.added = s1.added,
                                         !.added_paused = s1.added_paused]
               /\ UNCHANGED <<frame_clock, score, retired, retired_counted>>
          ELSE LET collision == pipe_collision(s1.pipes, s1.bird)
                   boundary  == out_of_window(s1.bird)
                   kept      == popleft_offscreen(s1.pipes)
                   dropped   == SubSeq(s1.pipes, 1, Len(s1.pipes) - Len(kept))
                   moved     == move_pipes(kept)
                   b2        == update(s1.bird)
               IN
               /\ done' = (s1.done \/ collision \/ boundary)
               /\ bird' = b2
               /\ score' = score + count_scores(moved, b2)
               /\ pipes' = mark_scores(moved, b2)
               /\ frame_clock' = frame_clock + 1
               /\ spawns_at_clock' = 0
               /\ retired' = retired + Len(dropped)
               /\ retired_counted' = retired_counted +
                     Cardinality({i \in 1..Len(dropped) : dropped[i].score_counted})
               /\ last' = [quit |-> s1.quit, toggled |-> s1.toggled,
                           added |-> s1.added, added_paused |-> s1.added_paused,
                           checked |-> TRUE, pipe_collision |-> collision,
                           boundary |-> boundary,
                           hit |-> {s1.pipes[i].id : i \in
                                      {j \in 1..Len(s1.pipes) :
                                          collides_with(s1.pipes[j], rect(s1.bird))}}]
    /\ UNCHANGED <<output, pc, error, arc>>

(* Lines 352-353: the loop has ended, the score is printed. *)
Report ==
    /\ done
    /\ output = << >>
    /\ output' = <<score>>
    /\ UNCHANGED <<bird, pipes, frame_clock, score, done, paused,
                   spawned, spawns_at_clock, retired, retired_counted, last,
                   pc, error, arc>>

Next == Tick \/ Report

Spec == Init /\ [][Next]_vars

(* --------------------------- the bird alone ---------------------------- *)

(* Lines 297-351 for the bird: the jump commands of one tick (lines        *)
(* 311-313), the boundary check (line 323) and update() (line 336).  No    *)
(* pipe is within reach of the bird before tick 163, so below that the     *)
(* pipes have no part in what the bird does.                               *)
BirdTick ==
    /\ ~done
    /\ frame_clock < MaxBirdTicks
    /\ \E n \in 0..MaxTickJumps :
       LET s0 == [done |-> done, paused |-> paused, bird |-> bird, pipes |-> pipes,
                  spawned |-> spawned, quit |-> FALSE, toggled |-> FALSE,
                  added |-> 0, added_paused |-> FALSE]
           s1 == handle_events([i \in 1..n |-> "JUMP"], s0, 1)
       IN
       /\ arc.jumps + n <= MaxJumps
       /\ bird' = update(s1.bird)
       /\ done' = out_of_window(s1.bird)
       /\ frame_clock' = frame_clock + 1
       /\ arc' = IF n > 0
                 THEN [commanded |-> TRUE, from |-> bird.y,
                       prev |-> bird.steps_to_jump, n |-> n, updates |-> 1,
                       jumps |-> arc.jumps + n, ticks |-> arc.ticks + 1]
                 ELSE [arc EXCEPT !.updates = IF arc.commanded THEN @ + 1 ELSE @,
                                  !.ticks = @ + 1]
    /\ UNCHANGED <<pipes, score, paused, output, spawned, spawns_at_clock,
                   retired, retired_counted, last, pc, error>>

SpecBird == Init /\ [][BirdTick]_vars

(* ------------------------- the source as written ----------------------- *)

(* Bird.update as written: line 81 tests the name steps_to_jump, which is  *)
(* neither a local of update nor bound in the module or in builtins; the   *)
(* lookup raises NameError before anything is assigned.                    *)
Bird_update(b) == [bird |-> b, error |-> "NameError"]

(* Lines 278-290 as written: the third argument of Bird(...) is the call   *)
(* 2(...) of line 289; an int is not callable, so TypeError is raised      *)
(* while the arguments are evaluated, before Bird.__init__ and before any  *)
(* of lines 292-297.                                                       *)
main_setup == [error |-> "TypeError", in_loop |-> FALSE]

(* The module is loaded and a Bird has been built by Bird.__init__. *)
InitAsWritten ==
    /\ bird \in {Bird(50, 120 * row * Micro, s) :
                    row \in 0..MaxBirdRow, s \in 0..JUMP_STEPS}
    /\ pipes = << >>
    /\ frame_clock = 0
    /\ score = 0
    /\ done = FALSE
    /\ paused = FALSE
    /\ output = << >>
    /\ spawned = 0
    /\ spawns_at_clock = 0
    /\ retired = 0
    /\ retired_counted = 0
    /\ last = NoTick
    /\ pc = "module"
    /\ error = "none"
    /\ arc = NoArc

(* Line 359: main() is called. *)
CallMain ==
    /\ pc = "module"
    /\ pc' = IF main_setup.in_loop THEN "loop" ELSE "main"
    /\ error' = main_setup.error
    /\ UNCHANGED <<bird, pipes, frame_clock, score, done, paused, output, spawned,
                   spawns_at_clock, retired, retired_counted, last, arc>>

(* Line 336, or any caller of the class: update() is called on the bird. *)
CallUpdate ==
    /\ pc = "module"
    /\ pc' = "update"
    /\ bird' = Bird_update(bird).bird
    /\ error' = Bird_update(bird).error
    /\ UNCHANGED <<pipes, frame_clock, score, done, paused, output, spawned,
                   spawns_at_clock, retired, retired_counted, last, arc>>

NextAsWritten == CallMain \/ CallUpdate

SpecAsWritten == InitAsWritten /\ [][NextAsWritten]_vars

(* ------------------------------ properties ---------------------------- *)

(* The pipe of ps built id-th, if it is in ps. *)
WithId(ps, id) == {i \in 1..Len(ps) : ps[i].id = id}

CountedIn(ps, id) == \E i \in WithId(ps, id) : ps[i].score_counted

(* C1: a tick that ends with the session paused leaves the x of every      *)
(* active obstacle, the bird's y, the score and frame_clock as they were   *)
(* at its start, evaluates no collision or boundary check, and sets done   *)
(* only on a quit input.                                                   *)
PausedTickFreezesFrame ==
    [][(~done /\ paused') =>
          /\ frame_clock' = frame_clock
          /\ score' = score
          /\ bird'.y = bird.y
          /\ \A i \in 1..Len(pipes) :
                /\ i <= Len(pipes')
                /\ pipes'[i].id = pipes[i].id
                /\ pipes'[i].x = pipes[i].x
          /\ ~last'.checked
          /\ (done' => last'.quit)]_vars

(* A tick that began and ended paused, with an obstacle on its way and the *)
(* bird in mid-flight.                                                     *)
PausedTickWitness ==
    /\ paused /\ ~done /\ ~last.toggled
    /\ Len(pipes) >= 1 /\ pipes[1].x < WIN_WIDTH - 300
    /\ frame_clock > 100

(* C2: no obstacle is appended between a pause-toggle that pauses the      *)
(* session and the matching resume-toggle, also not in the tick of the     *)
(* pause-toggle itself.                                                    *)
NoSpawnWhilePaused == ~last.added_paused

(* The obstacles spawned for the value frame_clock has before a step, once *)
(* the step is taken.                                                      *)
SpawnsForClock ==
    IF frame_clock' = frame_clock THEN spawns_at_clock'
    ELSE spawns_at_clock + last'.added

SpawnsDue == IF frame_clock % 180 = 0 THEN 1 ELSE 0

(* C3 as claimed: for every value of frame_clock that is a multiple of 180 *)
(* exactly one obstacle is spawned and for every other value none, under   *)
(* any interleaving of pause toggles: never more than one, never a skip.   *)
OneSpawnPerInterval ==
    [][/\ SpawnsForClock <= SpawnsDue
       /\ (frame_clock' = frame_clock + 1 => SpawnsForClock = SpawnsDue)]_vars

(* C3 as amended: never more than one obstacle for a multiple of 180 and   *)
(* none for another value; exactly one whenever frame_clock moves on from  *)
(* a multiple of 180 in a tick that handled no quit event.                 *)
OneSpawnPerIntervalUnlessQuit ==
    [][/\ SpawnsForClock <= SpawnsDue
       /\ (frame_clock' = frame_clock + 1 /\ ~last'.quit
             => SpawnsForClock = SpawnsDue)]_vars

(* The session was paused while frame_clock was 180 and resumed: the       *)
(* second obstacle is there, and only it.                                  *)
OneSpawnWitness ==
    /\ frame_clock = 181 /\ last.toggled /\ ~paused /\ ~done
    /\ spawned = 2 /\ Len(pipes) = 2

(* C4: a score_counted flag once true stays true, and the score equals the *)
(* number of obstacles, active or retired, whose flag is set.              *)
ScoredOncePerObstacle ==
    /\ [](score = retired_counted +
                  Cardinality({i \in 1..Len(pipes) : pipes[i].score_counted}))
    /\ [][\A i \in 1..Len(pipes) :
             (pipes[i].score_counted /\ WithId(pipes', pipes[i].id) # {})
                => CountedIn(pipes', pipes[i].id)]_vars

(* The first obstacle was counted, looked at again in later ticks and      *)
(* retired; the score is still 1.                                          *)
ScoredOnceWitness == retired_counted = 1 /\ score = 1 /\ Len(pipes) = 1

(* C5: the score never decreases; in each tick it grows by the number of   *)
(* obstacles whose right edge (x + 80) is left of the bird's x (50) and    *)
(* that were not counted before the tick.                                  *)
ScoreGrowsByPassed ==
    [][/\ score' >= score
       /\ score' - score =
             Cardinality({j \in 1..Len(pipes') :
                            /\ pipes'[j].x + 80 < 50
                            /\ ~CountedIn(pipes, pipes'[j].id)})]_vars

(* The tick in which the first obstacle's right edge passed the bird. *)
ScoreGrowsWitness ==
    /\ score = 1 /\ ~done
    /\ Len(pipes) = 2 /\ pipes[1].x = -32 /\ pipes[1].score_counted
    /\ ~pipes[2].score_counted

(* C6: an obstacle whose collision with the bird ends the session is never *)
(* score-counted.                                                          *)
CrashedObstacleNotCounted ==
    \A i \in 1..Len(pipes) : pipes[i].id \in last.hit => ~pipes[i].score_counted

(* C7: in a running tick with no quit input and no obstacle collision the  *)
(* session is terminated exactly if the bird's y at the collision check is *)
(* <= 0 or >= 480.                                                         *)
BoundaryTermination ==
    [][(~done /\ last'.checked /\ ~last'.quit /\ ~last'.pipe_collision) =>
          (done' <=> (bird.y <= 0 \/ bird.y >= 480 * Micro))]_vars

(* The bird fell to the bottom boundary, clear of any obstacle. *)
BoundaryWitness ==
    /\ done /\ last.checked /\ ~last.quit /\ ~last.pipe_collision
    /\ bird.y >= 480 * Micro
    /\ Len(pipes) >= 1

(* The session state of the loop. *)
Running == ~done /\ ~paused
Paused == ~done /\ paused
Terminated == done

(* The steps the state machine allows apart from termination while paused: *)
(* the paused flag changes only by a pause-toggle, a running session ends  *)
(* only by a quit input, an obstacle collision or a boundary breach, and a *)
(* terminated session changes no more; the score is printed at most once,  *)
(* after termination, and it is the final score.                           *)
StateMachineSteps ==
    /\ (~done /\ ~done' /\ paused' # paused) => last'.toggled
    /\ (~done /\ done' /\ ~paused')
          => (last'.quit \/ last'.pipe_collision \/ last'.boundary)
    /\ done => /\ done'
               /\ <<bird, pipes, frame_clock, score, paused, spawned>>' =
                  <<bird, pipes, frame_clock, score, paused, spawned>>
    /\ output' # output => (done /\ output = << >> /\ output' = <<score>>)

(* C8 as claimed: the session state changes only by Running -> Paused and  *)
(* Paused -> Running on a pause-toggle and Running -> Terminated on quit,  *)
(* collision or boundary breach; Terminated is never entered while the     *)
(* session is paused; once entered nothing changes and the final score is  *)
(* printed once.                                                           *)
TerminatedOnlyFromRunning ==
    [][/\ StateMachineSteps
       /\ ~(~done /\ done' /\ paused')]_vars

(* C8 as amended: as claimed, except that a quit input also terminates a   *)
(* paused session (and nothing else does).                                 *)
TerminatedFromPausedOnlyByQuit ==
    [][/\ StateMachineSteps
       /\ (~done /\ done' /\ paused') => (last'.quit /\ ~last'.checked)]_vars

(* A paused session was ended by a quit input and its score printed. *)
QuitWhilePausedWitness ==
    /\ done /\ paused /\ last.quit /\ ~last.toggled
    /\ output = <<score>> /\ frame_clock > 0

(* C9: every generated obstacle is passable: both piece counts are >= 1,   *)
(* top_pieces + bottom_pieces - 2 = 10, the gap left by the two heights    *)
(* is at least 3 * 32 = 96 pixels, and the two collision rectangles do not *)
(* overlap.                                                                *)
ObstaclePassable ==
    \A i \in 1..Len(pipes) :
       LET p == pipes[i] IN
       /\ p.top_pieces >= 1
       /\ p.bottom_pieces >= 1
       /\ p.top_pieces + p.bottom_pieces - 2 = 10
       /\ 512 - top_height_px(p) - bottom_height_px(p) >= 96
       /\ ~colliderect(top_rect(p), bottom_rect(p))
       /\ top_rect(p).y + top_rect(p).h <= bottom_rect(p).y

(* Two obstacles from the two ends of the range of draws, 1 and 10. *)
ObstaclePassableWitness ==
    /\ Len(pipes) = 2
    /\ pipes[1].bottom_pieces = 2 /\ pipes[1].top_pieces = 10
    /\ pipes[2].bottom_pieces = 11 /\ pipes[2].top_pieces = 1

(* C10 as claimed: the gap computed from the piece counts after the end    *)
(* pieces are added is exactly 3 bird heights, 96 pixels.                  *)
GapIsThreeBirds ==
    \A i \in 1..Len(pipes) :
       512 - pipes[i].top_pieces * 32 - pipes[i].bottom_pieces * 32 = 96

(* C10 as amended: that gap is exactly 4 bird heights, 128 pixels.         *)
GapIsFourBirds ==
    \A i \in 1..Len(pipes) :
       512 - pipes[i].top_pieces * 32 - pipes[i].bottom_pieces * 32 = 128

(* The obstacle of a draw of 4: heights 224 and 160. *)
GapWitness ==
    /\ Len(pipes) >= 1
    /\ pipes[1].bottom_pieces = 5 /\ pipes[1].top_pieces = 7
    /\ top_height_px(pipes[1]) = 224 /\ bottom_height_px(pipes[1]) = 160

(* C11: Bird.update() advances the bird by one tick without failing: with  *)
(* steps_to_jump > 0 it decrements steps_to_jump by exactly 1 and does not *)
(* increase y; otherwise it increases y by exactly FRAME_DROP_HEIGHT and   *)
(* leaves steps_to_jump at 0; x is unchanged in both cases.                *)
UpdateAdvancesOneTick ==
    [][(pc = "module" /\ pc' = "update") =>
          /\ error' = "none"
          /\ bird'.x = bird.x
          /\ IF bird.steps_to_jump > 0
             THEN /\ bird'.steps_to_jump = bird.steps_to_jump - 1
                  /\ bird'.y <= bird.y
             ELSE /\ bird'.steps_to_jump = 0
                  /\ bird'.y = bird.y + FRAME_DROP_HEIGHT * Micro]_vars

(* C12: a jump commanded once and not commanded again moves the bird up by *)
(* exactly FRAME_JUMP_HEIGHT * JUMP_STEPS = 100 pixels over its 20         *)
(* updates, y never increases during those updates, and every later        *)
(* update lowers the bird by 3 pixels.                                     *)
FullJumpRisesHundred ==
    [][(arc'.commanded /\ arc'.ticks = arc.ticks + 1) =>
          /\ (arc'.updates <= JUMP_STEPS => bird'.y <= bird.y)
          /\ (arc'.updates = JUMP_STEPS =>
                 /\ bird'.steps_to_jump = 0
                 /\ bird'.y = arc'.from - FRAME_JUMP_HEIGHT * JUMP_STEPS * Micro)
          /\ (arc'.updates > JUMP_STEPS =>
                 bird'.y = bird.y + FRAME_DROP_HEIGHT * Micro)]_vars

(* C13: a tick with jump commands leaves steps_to_jump at JUMP_STEPS less  *)
(* the one step its update() takes, whatever steps_to_jump was before and  *)
(* however many jump commands the tick had: the arc starts again from its  *)
(* first step (which does not move the bird), and steps_to_jump never      *)
(* exceeds JUMP_STEPS.                                                     *)
JumpCommandSetsTwenty ==
    [][/\ bird'.steps_to_jump <= JUMP_STEPS
       /\ (arc'.jumps > arc.jumps =>
              /\ bird'.steps_to_jump = JUMP_STEPS - 1
              /\ bird'.y = bird.y
              /\ bird'.x = bird.x)]_vars

(* Two jump commands in one tick, in the middle of an arc. *)
JumpCommandWitness ==
    /\ arc.n = 2
    /\ arc.prev \in 1..(JUMP_STEPS - 1)
    /\ arc.updates = 1
    /\ bird.steps_to_jump = JUMP_STEPS - 1

(* C16: main() starts the session: one bird at x = 50, y = 240 with        *)
(* steps_to_jump = 2, no pipes, score 0, frame_clock 0, not paused, not    *)
(* done, and the loop is entered without an error.                         *)
MainStartsSession ==
    pc = "main" =>
        /\ error = "none"
        /\ main_setup.in_loop
        /\ bird = Bird(50, (WIN_HEIGHT \div 2 - Bird_HEIGHT \div 2) * Micro, 2)
        /\ pipes = << >>
        /\ score = 0
        /\ frame_clock = 0
        /\ ~paused
        /\ ~done

(* C14: while the session is paused the bird does not change: from one     *)
(* paused state to the next its steps_to_jump and y are the same, also     *)
(* when jump commands arrive, so the bird is at the resume-toggle as it    *)
(* was at the pause-toggle.                                                *)
PausedFreezesBird ==
    [][(~done /\ paused /\ paused') =>
          /\ bird'.steps_to_jump = bird.steps_to_jump
          /\ bird'.y = bird.y]_vars

(* C15 as claimed: after every tick no active obstacle has x <= -WIDTH.    *)
NoPipeLeftAtMinusWidth ==
    \A i \in 1..Len(pipes) : pipes[i].x > -PipePair_WIDTH

(* C15 as amended: retirement precedes movement within the tick: no active *)
(* obstacle is ever left of -WIDTH, and every obstacle with x <= -WIDTH at *)
(* the start of a running tick is gone at its end.                         *)
RetiredBeforeNextMove ==
    [][/\ \A j \in 1..Len(pipes') : pipes'[j].x >= -PipePair_WIDTH
       /\ (frame_clock' = frame_clock + 1 =>
              \A i \in 1..Len(pipes) :
                 pipes[i].x <= -PipePair_WIDTH => WithId(pipes', pipes[i].id) = {})]_vars

(* An obstacle stands at exactly -WIDTH after the tick that moved it there. *)
PipeAtMinusWidthWitness ==
    /\ Len(pipes) >= 1
    /\ pipes[1].x = -PipePair_WIDTH
    /\ last.checked

(* C17: the obstacles are ordered oldest first, each 540 pixels right of   *)
(* the one before it; an obstacle leaves the collection only from the      *)
(* front and only with x <= -WIDTH, and no obstacle with x <= -WIDTH       *)
(* stands behind one that is on the screen.                                *)
PipesOrderedOldestFirst ==
    /\ [](\A i \in 1..(Len(pipes) - 1) :
             /\ pipes[i].id < pipes[i + 1].id
             /\ pipes[i + 1].x = pipes[i].x + msec_to_frames(ADD_INTERVAL) * FRAME_ANIMATION_WIDTH
             /\ (pipes[i + 1].x <= -PipePair_WIDTH => pipes[i].x <= -PipePair_WIDTH))
    /\ [][\A i \in 1..Len(pipes) :
             WithId(pipes', pipes[i].id) = {} =>
                /\ pipes[i].x <= -PipePair_WIDTH
                /\ \A j \in 1..(i - 1) : WithId(pipes', pipes[j].id) = {}]_vars

(* Two obstacles, the older one already partly off the left edge. *)
PipesOrderedWitness ==
    /\ Len(pipes) = 2
    /\ pipes[1].x < 0
    /\ pipes[2].x > 0

(* C18: the collection never holds more than 2 obstacles. *)
AtMostTwoPipes == Len(pipes) <= 2

(* The third obstacle has been spawned; the first was retired before. *)
AtMostTwoWitness ==
    /\ spawned = 3
    /\ Len(pipes) = 2
    /\ retired = 1

(* C19: every obstacle removed from the collection has score_counted set   *)
(* when it is removed, and the score is the number of retired obstacles    *)
(* plus the number of active obstacles with score_counted set.             *)
NoPointLostAtRetirement ==
    /\ [](/\ retired = retired_counted
          /\ score = retired +
                Cardinality({i \in 1..Len(pipes) : pipes[i].score_counted}))
    /\ [][\A i \in 1..Len(pipes) :
             WithId(pipes', pipes[i].id) = {} => pipes[i].score_counted]_vars

(* The tick that removed the first obstacle has just run. *)
RetirementWitness ==
    /\ retired = 1
    /\ score = 1
    /\ frame_clock = 217
    /\ Len(pipes) = 1

====
